---- MODULE Spec2Model ----
(***************************************************************************)
(* Gemini Live voice client: the conversation state machine, the capture   *)
(* callback, the playback scheduler (src/App.tsx, lines 1-494) and the     *)
(* session client with its tool dispatch (src/services/geminiService.ts).  *)
(*                                                                         *)
(* The program is single-threaded: every action below is one task of the   *)
(* browser's event loop (a click, a WebSocket callback, an audio callback, *)
(* a promise continuation, a React commit), run to completion.             *)
(*                                                                         *)
(* Every handler of the source is a pure operator on a record `s` holding  *)
(* the whole mutable state (the React state, the refs of App, the module   *)
(* variable `session` and the connections the SDK holds); an action        *)
(* applies the handler to the current state, Cur, and stores the result    *)
(* with Becomes.  Handlers that call each other compose as operators.      *)
(***************************************************************************)
EXTENDS Integers, Sequences, FiniteSets, TLC

\* ---------------------------------------------------------------- bounds
MaxConn == 3        \* connection attempts (ai.live.connect calls) in a run
MaxBatchLen == 2    \* invocations in one tool batch
\* the environment of SpecTalk (one conversation: audio in and out)
TalkMsgs == 4       \* inbound messages
TalkFrames == 2     \* captured frames
TalkClock == 2      \* last tick of the output clock
\* the environment of SpecTools (tool batches)
ToolConns == 2      \* connection attempts
ToolMsgs == 2       \* inbound messages

\* the environment of SpecDsp (the signal path of one frame)
Unit == 2           \* a sample is a multiple of 1/Unit
MaxFrameLen == 6    \* samples in a frame of one value
MaxShortLen == 3    \* samples in a frame of any values

\* App.tsx 9, 11 (0.02 as a fraction), 148, 220.
TARGET_SAMPLE_RATE == 16000
VAD_THRESHOLD_NUM == 2
VAD_THRESHOLD_DEN == 100
NEG_SCALE == 32768
POS_SCALE == 32767
DECODE_SCALE == 32767

Max(a, b) == IF a >= b THEN a ELSE b

\* AssistantState, src/unnamed/part_000
AssistantState == {"IDLE", "LISTENING", "PROCESSING", "SPEAKING"}

\* What the SDK holds for one ai.live.connect call.
\*   none: not yet made;  connecting: the promise is pending;  open;
\*   closing: close() was called on it, onclose not yet delivered;
\*   failed: onerror was delivered, onclose not yet;
\*   closed: onclose delivered, or the connect was rejected.
ConnState == {"none", "connecting", "open", "closing", "failed", "closed"}
Conns == 1..MaxConn
\* buffer.duration of a decoded chunk, in ticks of the output clock: a
\* short and a long buffer.
Durations == {1, 2}

\* The values of the React state `error`: null, or one of the messages of
\* App.tsx 254, 281, 319.
NoError == "null"
MicrophoneError == "Microphone access is required. Please grant permission and refresh."
ConnectionError == "A connection error occurred."
ConnectError == "Could not connect to the service."

VARIABLES
    assistantState,  \* the React state: the latest value given to setAssistantState
    error,           \* the React state `error`: the latest value given to setError
    stateRef,        \* stateRef.current: assistantState as of the last commit
    streamRef,       \* streamRef.current # null
    processorRef,    \* processorRef.current # null
    recorderCtx,     \* recorderAudioContextRef.current # null
    gumPending,      \* startRecording calls awaiting getUserMedia
    liveStreams,     \* microphone streams whose tracks were not stopped
    liveProcs,       \* script processors still delivering onaudioprocess
    playerCtx,       \* playerAudioContextRef.current # null
    resumePending,   \* startConversation calls awaiting pAC.resume()
    clock,           \* currentTime of the player context
    audioQueue,      \* audioQueueRef.current
    isPlaying,       \* isPlayingRef.current
    nextPlayTime,    \* nextPlayTimeRef.current
    currentSource,   \* currentPlayerSourceRef.current: a source number, 0 for null
    attached,        \* started sources whose onended handler is still set
    session,         \* the module variable `session`: a connection, 0 for null
    conn,            \* the state of every connection
    pending,         \* handleToolCall invocations suspended at an await
    isUsingTools,    \* the React state `isUsingTools`
    toolResponses,   \* the React state `toolResponses`: the invocations reported
    \* ---- the environment's counters and the history the claims speak of
    nMsgs,           \* messages dispatched so far
    nFrames,         \* frames processed so far
    nAudio,          \* audio chunks received so far (arrival numbers)
    nBatches,        \* tool batches received so far
    curResp,         \* the model response the remote side is streaming
    playLog,         \* every source started: chunk, start time, duration
    scheduled,       \* a source was started since assistantState was last set to LISTENING
    interrupted,     \* responses whose playback a VAD interrupt stopped
    stopped,         \* sources stopPlayback stopped
    flushed,         \* chunks stopPlayback removed from the queue
    malformed,       \* chunks whose decoding threw in addAudioChunkToQueue
    sent,            \* packets handed to session.sendRealtimeInput
    received,        \* tool batches handed to handleToolCall
    replies,         \* session.sendToolResponse calls
    \* ---- one run of processAudio's signal path, App.tsx 182-229
    frame,           \* e.inputBuffer: its sampleRate and its samples
    vad,             \* the VAD decision of the last frame processed
    packet           \* the argument of sendAudioToGemini, NoPacket before

appVars == << assistantState, error, stateRef, streamRef, processorRef, recorderCtx,
           gumPending, liveStreams, liveProcs, playerCtx, resumePending, clock,
           audioQueue, isPlaying, nextPlayTime, currentSource, attached,
           session, conn, pending, isUsingTools, toolResponses, nMsgs, nFrames, nAudio, nBatches, curResp,
           playLog, scheduled, interrupted, stopped, flushed, malformed, sent,
           received, replies >>

vars == << appVars, frame, vad, packet >>

\* The whole state as one record, and its assignment to the next state.
Cur ==
    [ assistantState |-> assistantState, error |-> error, stateRef |-> stateRef,
      streamRef |-> streamRef, processorRef |-> processorRef,
      recorderCtx |-> recorderCtx, gumPending |-> gumPending,
      liveStreams |-> liveStreams, liveProcs |-> liveProcs,
      playerCtx |-> playerCtx, resumePending |-> resumePending,
      clock |-> clock, audioQueue |-> audioQueue, isPlaying |-> isPlaying,
      nextPlayTime |-> nextPlayTime, currentSource |-> currentSource,
      attached |-> attached, session |-> session, conn |-> conn,
      pending |-> pending, isUsingTools |-> isUsingTools,
      toolResponses |-> toolResponses, nMsgs |-> nMsgs, nFrames |-> nFrames,
      nAudio |-> nAudio, nBatches |-> nBatches, curResp |-> curResp,
      playLog |-> playLog, scheduled |-> scheduled,
      interrupted |-> interrupted, stopped |-> stopped, flushed |-> flushed,
      malformed |-> malformed,
      sent |-> sent,
      received |-> received, replies |-> replies ]

Becomes(s) ==
    /\ assistantState' = s.assistantState  /\ stateRef' = s.stateRef
    /\ streamRef' = s.streamRef            /\ processorRef' = s.processorRef
    /\ recorderCtx' = s.recorderCtx        /\ gumPending' = s.gumPending
    /\ liveStreams' = s.liveStreams        /\ liveProcs' = s.liveProcs
    /\ playerCtx' = s.playerCtx            /\ resumePending' = s.resumePending
    /\ clock' = s.clock                    /\ audioQueue' = s.audioQueue
    /\ isPlaying' = s.isPlaying            /\ nextPlayTime' = s.nextPlayTime
    /\ currentSource' = s.currentSource    /\ attached' = s.attached
    /\ session' = s.session                /\ conn' = s.conn
    /\ pending' = s.pending                /\ nMsgs' = s.nMsgs
    /\ nFrames' = s.nFrames                /\ nAudio' = s.nAudio
    /\ nBatches' = s.nBatches              /\ curResp' = s.curResp
    /\ playLog' = s.playLog                /\ interrupted' = s.interrupted
    /\ scheduled' = s.scheduled            /\ error' = s.error
    /\ stopped' = s.stopped                /\ flushed' = s.flushed
    /\ malformed' = s.malformed
    /\ sent' = s.sent                      /\ received' = s.received
    /\ replies' = s.replies
    /\ isUsingTools' = s.isUsingTools     /\ toolResponses' = s.toolResponses
    /\ UNCHANGED << frame, vad, packet >>

\* The state after construction and the first commit: App.tsx 26-53, 164,
\* geminiService.ts 160.
InitApp ==
    /\ assistantState = "IDLE"  /\ stateRef = "IDLE"  /\ error = NoError
    /\ streamRef = FALSE  /\ processorRef = FALSE  /\ recorderCtx = FALSE
    /\ gumPending = 0  /\ liveStreams = 0  /\ liveProcs = 0
    /\ playerCtx = FALSE  /\ resumePending = 0  /\ clock = 0
    /\ audioQueue = << >>  /\ isPlaying = FALSE  /\ nextPlayTime = 0
    /\ currentSource = 0  /\ attached = {}
    /\ session = 0  /\ conn = [i \in Conns |-> "none"]
    /\ pending = {}  /\ isUsingTools = FALSE  /\ toolResponses = << >>
    /\ nMsgs = 0  /\ nFrames = 0  /\ nAudio = 0  /\ nBatches = 0  /\ curResp = 1
    /\ playLog = << >>  /\ scheduled = FALSE  /\ interrupted = {}  /\ sent = << >>
    /\ stopped = {}  /\ flushed = {}  /\ malformed = {}
    /\ received = << >>  /\ replies = << >>

\* No frame has been captured.
NoFrame == [sampleRate |-> TARGET_SAMPLE_RATE, samples |-> << >>]
NoPacket == [chars |-> << >>, pad |-> -1]

Init ==
    /\ InitApp
    /\ frame = NoFrame  /\ vad = FALSE  /\ packet = NoPacket

\* setError(msg)
SetError(s, msg) == [s EXCEPT !.error = msg]

\* setAssistantState(AssistantState.LISTENING)
SetListening(s) == [s EXCEPT !.assistantState = "LISTENING", !.scheduled = FALSE]

\* ------------------------------------------------- the playback scheduler

\* stopPlayback without line 67: the queue is kept.
StopPlayback_KeepQueue(s) ==
    [s EXCEPT !.attached = IF s.currentSource # 0 THEN @ \ {s.currentSource} ELSE @,
              !.stopped = IF s.currentSource # 0 THEN @ \cup {s.currentSource} ELSE @,
              !.currentSource = 0,
              !.flushed = @ \cup {s.audioQueue[k].id : k \in 1..Len(s.audioQueue)},
              !.isPlaying = FALSE]

\* stopPlayback, App.tsx 57-69.  Setting onended to null detaches the handler
\* of the current source; stop(0) ends it.
StopPlayback(s) ==
    [s EXCEPT !.attached = IF s.currentSource # 0 THEN @ \ {s.currentSource} ELSE @,
              !.stopped = IF s.currentSource # 0 THEN @ \cup {s.currentSource} ELSE @,
              !.currentSource = 0,
              !.flushed = @ \cup {s.audioQueue[k].id : k \in 1..Len(s.audioQueue)},
              !.audioQueue = << >>,
              !.isPlaying = FALSE]

\* pop() in place of shift(): the newest buffer would be taken first.
NextBuffer_Pop(q) == q[Len(q)]

\* The buffer playNextInQueue takes from the queue: audioQueueRef.current.shift()
NextBuffer(q) == Head(q)
RestOfQueue(q) == Tail(q)

\* playNextInQueue, App.tsx 107-135.  A started source gets the next number
\* of playLog; its onended handler (129-134) is modelled by SourceEnded.
PlayNextInQueue(s) ==
    IF Len(s.audioQueue) = 0 \/ ~s.playerCtx
    THEN LET a == [s EXCEPT !.isPlaying = FALSE]
         IN IF a.stateRef = "SPEAKING" THEN SetListening(a) ELSE a
    ELSE LET buffer == NextBuffer(s.audioQueue)
             source == Len(s.playLog) + 1
             playTime == Max(s.clock, s.nextPlayTime)
         IN [s EXCEPT !.isPlaying = TRUE,
                      !.audioQueue = RestOfQueue(@),
                      !.currentSource = source,
                      !.nextPlayTime = playTime + buffer.dur,
                      !.attached = @ \cup {source},
                      !.scheduled = TRUE,
                      !.playLog = Append(@, [chunk |-> buffer.id,
                                             start |-> playTime,
                                             dur |-> buffer.dur,
                                             resp |-> buffer.resp,
                                             late |-> buffer.late])]

\* The guard of addAudioChunkToQueue, App.tsx 140-141.
Admits(s) == s.stateRef = "SPEAKING" /\ s.playerCtx

\* addAudioChunkToQueue whose catch (158-160) stops playback.
AddAudioChunkToQueue_StopOnError(s, chunk, decodes) ==
    IF ~Admits(s) THEN s
    ELSE IF ~decodes THEN [StopPlayback(s) EXCEPT !.malformed = @ \cup {chunk.id}]
    ELSE LET q == [s EXCEPT !.audioQueue = Append(@, chunk)]
         IN IF ~q.isPlaying THEN PlayNextInQueue(q) ELSE q

\* addAudioChunkToQueue, App.tsx 138-161.  decodes = FALSE: atob or the
\* Int16Array constructor throws (143-145), caught at 158.  The function is
\* async but awaits nothing: it runs to its end in the caller's task.
AddAudioChunkToQueue(s, chunk, decodes) ==
    IF ~Admits(s) THEN s
    ELSE IF ~decodes THEN [s EXCEPT !.malformed = @ \cup {chunk.id}]
    ELSE LET q == [s EXCEPT !.audioQueue = Append(@, chunk)]
         IN IF ~q.isPlaying THEN PlayNextInQueue(q) ELSE q

\* The onAudio callback, App.tsx 291-298.
OnAudio(s, chunk, decodes) ==
    LET a == IF s.stateRef = "LISTENING"
             THEN [s EXCEPT !.assistantState = "SPEAKING"] ELSE s
    IN AddAudioChunkToQueue(a, chunk, decodes)

\* The responses whose audio is playing or queued.
RespInPlayback(s) ==
    {s.audioQueue[k].resp : k \in 1..Len(s.audioQueue)}
        \cup (IF s.currentSource # 0 THEN {s.playLog[s.currentSource].resp} ELSE {})

\* handleInterrupt, App.tsx 168-174.
HandleInterrupt(s) ==
    IF s.stateRef = "SPEAKING"
    THEN [SetListening(StopPlayback(s))
              EXCEPT !.interrupted = @ \cup RespInPlayback(s)]
    ELSE s

\* ---------------------------------------------------- the session client

\* session.isClosed: the connection is no longer open.
IsClosed(s, i) == s.conn[i] # "open"

NumConn(s) == Cardinality({i \in Conns : s.conn[i] # "none"})

\* The guard of startGeminiLiveSession, geminiService.ts 163-166.
SessionAlreadyActive(s) == s.session # 0

\* startGeminiLiveSession up to its await, geminiService.ts 162-180: the
\* call of ai.live.connect is the connection attempt.
StartGeminiLiveSession(s) ==
    IF SessionAlreadyActive(s) THEN s
    ELSE [s EXCEPT !.conn[NumConn(s) + 1] = "connecting"]

\* sendAudioToGemini without the guard of line 224.
SendAudioToGemini_NoGuard(s) ==
    [s EXCEPT !.sent = Append(@, [frame |-> s.nFrames, to |-> s.session])]

\* sendAudioToGemini, geminiService.ts 223-234.
SendAudioToGemini(s) ==
    IF s.session = 0 \/ IsClosed(s, s.session) THEN s
    ELSE [s EXCEPT !.sent = Append(@, [frame |-> s.nFrames, to |-> s.session])]

\* closeGeminiLiveSession without line 454: the handle is kept.
CloseGeminiLiveSession_KeepHandle(s) ==
    IF s.session # 0 /\ ~IsClosed(s, s.session)
    THEN [s EXCEPT !.conn[s.session] = "closing"]
    ELSE s

\* closeGeminiLiveSession, geminiService.ts 451-456.
CloseGeminiLiveSession(s) ==
    IF s.session # 0 /\ ~IsClosed(s, s.session)
    THEN [s EXCEPT !.conn[s.session] = "closing", !.session = 0]
    ELSE s

\* ------------------------------------------------------ the conversation

\* endConversation without line 103: the session is not closed.
EndConversation_NoClose(s) ==
    LET a == SetError([s EXCEPT !.assistantState = "IDLE",
                                !.toolResponses = << >>,
                                !.isUsingTools = FALSE], NoError)
        b == IF a.streamRef
             THEN [a EXCEPT !.liveStreams = @ - 1, !.streamRef = FALSE] ELSE a
        c == IF b.processorRef
             THEN [b EXCEPT !.liveProcs = @ - 1, !.processorRef = FALSE] ELSE b
        d == [c EXCEPT !.recorderCtx = FALSE]
        e == StopPlayback(d)
    IN [e EXCEPT !.playerCtx = FALSE, !.clock = 0]

\* endConversation, App.tsx 72-104.
EndConversation(s) ==
    LET a == SetError([s EXCEPT !.assistantState = "IDLE",
                                !.toolResponses = << >>,
                                !.isUsingTools = FALSE], NoError)
        b == IF a.streamRef
             THEN [a EXCEPT !.liveStreams = @ - 1, !.streamRef = FALSE] ELSE a
        c == IF b.processorRef
             THEN [b EXCEPT !.liveProcs = @ - 1, !.processorRef = FALSE] ELSE b
        d == [c EXCEPT !.recorderCtx = FALSE]
        e == StopPlayback(d)
        f == [e EXCEPT !.playerCtx = FALSE, !.clock = 0]
    IN CloseGeminiLiveSession(f)

\* processAudio that returns after an interrupt, before line 229.
ProcessAudio_ReturnAfterInterrupt(s, loud) ==
    LET n == [s EXCEPT !.nFrames = @ + 1]
    IN IF n.stateRef = "SPEAKING" /\ loud THEN HandleInterrupt(n)
       ELSE SendAudioToGemini(n)

\* processAudio, App.tsx 181-230, for a frame whose RMS is (loud) or is not
\* above VAD_THRESHOLD.
ProcessAudio(s, loud) ==
    LET n == [s EXCEPT !.nFrames = @ + 1]
        a == IF n.stateRef = "SPEAKING" /\ loud THEN HandleInterrupt(n) ELSE n
    IN SendAudioToGemini(a)

\* startRecording up to its await, App.tsx 232-234.
StartRecording(s) == [s EXCEPT !.gumPending = @ + 1]

\* startRecording after getUserMedia resolved, App.tsx 234-250: the refs are
\* overwritten, whatever they held.
RecordingStarted(s) ==
    [s EXCEPT !.gumPending = @ - 1,
              !.streamRef = TRUE, !.liveStreams = @ + 1,
              !.recorderCtx = TRUE,
              !.processorRef = TRUE, !.liveProcs = @ + 1]

\* startRecording's catch, App.tsx 252-256.
RecordingFailed(s) ==
    EndConversation(SetError([s EXCEPT !.gumPending = @ - 1], MicrophoneError))

\* startConversation after pAC.resume(), App.tsx 272-321.
StartAfterResume(s) == StartGeminiLiveSession([s EXCEPT !.nextPlayTime = 0])

\* startConversation, App.tsx 261-271.  A new AudioContext counts its
\* currentTime from 0.
StartConversation(s, suspended) ==
    LET a == [SetError(s, NoError) EXCEPT !.assistantState = "PROCESSING",
                                          !.playerCtx = TRUE, !.clock = 0]
    IN IF suspended THEN [a EXCEPT !.resumePending = @ + 1]
       ELSE StartAfterResume(a)

\* The onOpen callback, App.tsx 275-279.
OnOpen(s) == StartRecording(SetListening(s))

\* The onError callback, App.tsx 280-283.
OnErrorCallback(s) == EndConversation(SetError(s, ConnectionError))

\* The catch of startConversation, App.tsx 318-321.
ConnectFailed(s) == EndConversation(SetError(s, ConnectError))

\* The commit of a render and its effect, App.tsx 50-53.
Commit(s) == [s EXCEPT !.stateRef = s.assistantState]

\* ------------------------------------------------------- tool dispatch

\* The handler table of handleToolCall's switch, geminiService.ts 412-430.
SyncTools == {"calculate_financial_metrics", "generate_financial_report",
              "budget_tracker", "tax_calculator"}
AsyncTools == {"fetch_general_ledger_report"}

\* The invocations the remote side sends here: a name and whether the
\* arguments are the declared ones ("good") or make the handler throw ("bad":
\* cash_flows missing, geminiService.ts 242).
Invocations ==
    { [name |-> "calculate_financial_metrics", args |-> "good"],
      [name |-> "calculate_financial_metrics", args |-> "bad"],
      [name |-> "fetch_general_ledger_report", args |-> "good"],
      [name |-> "no_such_tool", args |-> "good"] }

BatchShapes == UNION {[1..n -> Invocations] : n \in 1..MaxBatchLen}

\* functionCalls of batch b: every invocation gets its own id.
FunctionCalls(b, shape) ==
    [k \in 1..Len(shape) |->
        [id |-> 10 * b + k, name |-> shape[k].name, args |-> shape[k].args]]

\* The invocation suspends handleToolCall: geminiService.ts 426, the await of
\* a fetch that was started (353).
Suspends(fc) == fc.name \in AsyncTools /\ fc.args = "good"

\* The result of an invocation that does not suspend, geminiService.ts
\* 411-436: "ok", or the error-shaped result of the default case or of the
\* catch.
ResultOf(fc) ==
    IF fc.name \notin SyncTools \cup AsyncTools THEN "error_unknown"
    ELSE IF fc.args = "bad" THEN "error_thrown"
    ELSE "ok"

\* The result of fetchGeneralLedgerReport, geminiService.ts 360-401.
FetchResult(httpOk) == IF httpOk THEN "ok" ELSE "error_fetch"

\* The push of lines 438-442 left out for the result of the default case.
PushResponse_SkipUnknown(job, fc, result) ==
    IF result = "error_unknown" THEN [job EXCEPT !.pos = @ + 1]
    ELSE [job EXCEPT !.pos = @ + 1,
                     !.responses = Append(@, [id |-> fc.id, name |-> fc.name,
                                              response |-> result])]

\* functionResponses.push, geminiService.ts 438-442.
PushResponse(job, fc, result) ==
    [job EXCEPT !.pos = @ + 1,
                !.responses = Append(@, [id |-> fc.id, name |-> fc.name,
                                         response |-> result])]

\* The onToolCall callback, App.tsx 299-303.
OnToolCallCallback(s) == [s EXCEPT !.isUsingTools = TRUE]

\* The onToolResponse callback, App.tsx 304-317.
OnToolResponseCallback(s, fc) ==
    [s EXCEPT !.toolResponses = Append(@, fc.id), !.isUsingTools = FALSE]

\* The end of the try block, geminiService.ts 432: onToolResponse is called
\* with the result unless the handler threw, which skips to the catch.
ReportResult(s, fc, result) ==
    IF result = "error_thrown" THEN s ELSE OnToolResponseCallback(s, fc)

\* The end of handleToolCall, geminiService.ts 445-448.
SendToolResponse(s, job) ==
    IF s.session # 0 /\ ~IsClosed(s, s.session)
    THEN [s EXCEPT !.replies = Append(@, [batch |-> job.batch,
                                          to |-> s.session,
                                          responses |-> job.responses])]
    ELSE s

\* handleToolCall from invocation job.pos on, geminiService.ts 408-448: it
\* runs until the loop ends or an invocation suspends it.
RECURSIVE HandleToolCall(_, _)
HandleToolCall(s, job) ==
    IF job.pos > Len(job.calls) THEN SendToolResponse(s, job)
    ELSE LET fc == job.calls[job.pos]
         IN IF Suspends(fc) THEN [s EXCEPT !.pending = @ \cup {job}]
            ELSE HandleToolCall(ReportResult(s, fc, ResultOf(fc)),
                                PushResponse(job, fc, ResultOf(fc)))

\* onmessage with a toolCall where a throwing handler fails the session: the
\* catch of lines 434-436 left out.
OnToolCall_Abort(s, i, calls) ==
    LET b == s.nBatches + 1
        r == [OnToolCallCallback(s)
                  EXCEPT !.nBatches = b,
                         !.received = Append(@, [batch |-> b, on |-> i,
                                                 calls |-> calls,
                                                 msg |-> s.nMsgs])]
    IN IF \E k \in 1..Len(calls) : ResultOf(calls[k]) = "error_thrown"
       THEN [OnErrorCallback(r) EXCEPT !.session = 0]
       ELSE HandleToolCall(r, [batch |-> b, calls |-> calls, pos |-> 1,
                               responses |-> << >>])

\* onmessage with a toolCall, geminiService.ts 210-213: onToolCall is called,
\* then handleToolCall, which is not awaited.
OnToolCall(s, i, calls) ==
    LET b == s.nBatches + 1
        r == [OnToolCallCallback(s)
                  EXCEPT !.nBatches = b,
                         !.received = Append(@, [batch |-> b, on |-> i,
                                                 calls |-> calls,
                                                 msg |-> s.nMsgs])]
    IN HandleToolCall(r, [batch |-> b, calls |-> calls, pos |-> 1,
                          responses |-> << >>])

\* handleToolCall resumed after the awaited fetch, geminiService.ts 426-448.
FetchSettled(s, job, httpOk) ==
    LET fc == job.calls[job.pos]
        result == FetchResult(httpOk)
    IN HandleToolCall(ReportResult([s EXCEPT !.pending = @ \ {job}], fc, result),
                      PushResponse(job, fc, result))

\* ------------------------------------------------------------ the actions

\* A click on the record button while it shows "start": handleToggleConversation,
\* App.tsx 325-331, with the assistantState of the last commit.  React
\* commits the update of a click before the click's task ends.
\* suspended: the new AudioContext is in state 'suspended' (App.tsx 269).
ClickStart ==
    /\ stateRef = "IDLE"
    /\ \E suspended \in BOOLEAN :
          Becomes(Commit(StartConversation(Cur, suspended)))

\* A click on the button while it shows "end"; RecordButton disables it
\* while the committed state is PROCESSING (part_001 45, 56).
ClickEnd ==
    /\ stateRef \notin {"IDLE", "PROCESSING"}
    /\ Becomes(Commit(EndConversation(Cur)))

\* pAC.resume() resolved.
ResumeResolved ==
    /\ resumePending > 0
    /\ Becomes(StartAfterResume([Cur EXCEPT !.resumePending = @ - 1]))

\* React commits a pending state update and runs the effect of App.tsx 51-53.
Render ==
    /\ stateRef # assistantState
    /\ Becomes(Commit(Cur))

\* ai.live.connect resolved: the SDK has called onopen (geminiService.ts
\* 181-184), then the await of line 177 assigns the handle.
ConnectResolved(i) ==
    /\ conn[i] = "connecting"
    /\ Becomes([OnOpen([Cur EXCEPT !.conn[i] = "open"]) EXCEPT !.session = i])

\* ai.live.connect rejected: geminiService.ts 217-220, App.tsx 318-321.
ConnectRejected(i) ==
    /\ conn[i] = "connecting"
    /\ Becomes(ConnectFailed([Cur EXCEPT !.conn[i] = "closed"]))

\* onerror of connection i, geminiService.ts 190-194, App.tsx 280-283.
OnError(i) ==
    /\ conn[i] = "open"
    /\ Becomes([OnErrorCallback([Cur EXCEPT !.conn[i] = "failed"])
                    EXCEPT !.session = 0])

\* onclose of connection i, geminiService.ts 185-189 (App gives no onClose):
\* the remote side closed it, or the close started by close() or by an error
\* has completed.
OnClose(i) ==
    /\ conn[i] \in {"open", "closing", "failed"}
    /\ Becomes([Cur EXCEPT !.conn[i] = "closed", !.session = 0])

\* getUserMedia resolved / rejected.
GetUserMediaResolved ==
    /\ gumPending > 0
    /\ Becomes(RecordingStarted(Cur))

GetUserMediaRejected ==
    /\ gumPending > 0
    /\ Becomes(RecordingFailed(Cur))

\* onaudioprocess of a live processor.
AudioProcess ==
    /\ liveProcs > 0
    /\ \E loud \in BOOLEAN : Becomes(ProcessAudio(Cur, loud))

\* A connection delivers messages while it is open, and those that were in
\* flight when close() was called.
Delivers(i) == conn[i] \in {"open", "closing"}

Dispatched(s) == [s EXCEPT !.nMsgs = @ + 1]

\* onmessage with audio data, geminiService.ts 207-209.  The chunk is the
\* next to arrive and belongs to the response being streamed; it is late
\* when playback of that response was interrupted before.
AudioMessage(i) ==
    /\ Delivers(i)
    /\ \E d \in Durations, decodes \in BOOLEAN :
          LET chunk == [id |-> nAudio + 1, dur |-> d, resp |-> curResp,
                        late |-> curResp \in interrupted]
          IN Becomes(OnAudio([Dispatched(Cur) EXCEPT !.nAudio = @ + 1],
                             chunk, decodes))

\* onmessage with turnComplete, geminiService.ts 203-205 (App gives no
\* onTurnComplete): what the remote side sends next is another response.
TurnCompleteMessage(i) ==
    /\ Delivers(i)
    /\ Becomes([Dispatched(Cur) EXCEPT !.curResp = @ + 1])

\* onmessage with a transcript, geminiService.ts 197-202, App.tsx 284-290:
\* only text on the page changes.
TranscriptMessage(i) ==
    /\ Delivers(i)
    /\ Becomes(Dispatched(Cur))

\* onmessage with a toolCall, geminiService.ts 210-213.
ToolCallMessage(i) ==
    /\ Delivers(i)
    /\ \E shape \in BatchShapes :
          Becomes(OnToolCall(Dispatched(Cur), i,
                             FunctionCalls(nBatches + 1, shape)))

\* The fetch awaited by a suspended handleToolCall settles.
FetchDone ==
    \E job \in pending, httpOk \in BOOLEAN :
        Becomes(FetchSettled(Cur, job, httpOk))

\* The output clock advances.
Tick ==
    /\ playerCtx
    /\ Becomes([Cur EXCEPT !.clock = @ + 1])

\* onended without line 131: the reference to the ended source is kept.
OnEnded_KeepSource(s, source) ==
    LET a == [s EXCEPT !.attached = @ \ {source}]
    IN IF a.currentSource = source THEN PlayNextInQueue(a) ELSE a

\* source.onended, App.tsx 129-134: the buffer of a started source has
\* played to its end and its handler is still set.
OnEnded(s, source) ==
    LET a == [s EXCEPT !.attached = @ \ {source}]
    IN IF a.currentSource = source
       THEN PlayNextInQueue([a EXCEPT !.currentSource = 0])
       ELSE a

SourceEnded ==
    \E source \in attached :
        /\ playerCtx
        /\ clock >= playLog[source].start + playLog[source].dur
        /\ Becomes(OnEnded(Cur, source))

\* Connection attempts made or about to be made.
Attempts == NumConn(Cur) + resumePending

\* The session's life cycle: clicks, connects, closes, errors, the microphone.
SessionLife ==
    \/ ClickEnd
    \/ ResumeResolved
    \/ Render
    \/ \E i \in Conns : ConnectResolved(i)
    \/ \E i \in Conns : ConnectRejected(i)
    \/ \E i \in Conns : OnError(i)
    \/ \E i \in Conns : OnClose(i)

\* The user answers the microphone prompt.
Microphone ==
    \/ GetUserMediaResolved
    \/ GetUserMediaRejected

Lifecycle == SessionLife \/ Microphone

Next ==
    \/ Attempts < MaxConn /\ ClickStart
    \/ Lifecycle

Spec == Init /\ [][Next]_vars

\* One conversation, from the first click to its end, with audio in both
\* directions.
NextTalk ==
    \/ Attempts = 0 /\ ClickStart
    \/ Lifecycle
    \/ nFrames < TalkFrames /\ AudioProcess
    \/ nMsgs < TalkMsgs /\ \E i \in Conns : AudioMessage(i)
    \/ nMsgs < TalkMsgs /\ \E i \in Conns : TurnCompleteMessage(i)
    \/ clock < TalkClock /\ Tick
    \/ SourceEnded

SpecTalk == Init /\ [][NextTalk]_vars

\* The output clock advances while a started buffer has not played to its
\* end.
Drain ==
    /\ attached # {}
    /\ clock < nextPlayTime
    /\ Tick

\* The conversation of SpecTalk in which time passes while audio plays, every
\* buffer that has played to its end delivers onended, and React commits
\* every pending update.
NextDrain ==
    \/ NextTalk
    \/ Drain

SpecDrain ==
    /\ Init /\ [][NextDrain]_vars
    /\ WF_vars(Drain) /\ WF_vars(SourceEnded) /\ WF_vars(Render)

\* Tool batches among the other messages, over the life cycle.
NextTools ==
    \/ Attempts < ToolConns /\ ClickStart
    \/ SessionLife
    \/ nMsgs < ToolMsgs /\ \E i \in Conns : AudioMessage(i)
    \/ nMsgs < ToolMsgs /\ \E i \in Conns : TurnCompleteMessage(i)
    \/ nMsgs < ToolMsgs /\ \E i \in Conns : TranscriptMessage(i)
    \/ nMsgs < ToolMsgs /\ \E i \in Conns : ToolCallMessage(i)
    \/ FetchDone

SpecTools == Init /\ [][NextTools]_vars

\* ------------------------------------------- the signal path of one frame
\* A sample is an integer n standing for n / Unit; a downsampled sample is
\* the pair of processAudio's accum and count, standing for
\* accum / (count * Unit), and for NaN when count = 0.

Min(a, b) == IF a <= b THEN a ELSE b

\* Math.round(a / b) for a >= 0 and b > 0: the nearest integer, a half goes up.
MathRound(a, b) == (2 * a + b) \div (2 * b)

\* newLength rounded up instead of to the nearest integer.
NewLength_Ceil(length, sampleRate) ==
    (length * TARGET_SAMPLE_RATE + sampleRate - 1) \div sampleRate

\* newLength, App.tsx 186-187: Math.round(length / (sampleRate / 16000)).
NewLength(length, sampleRate) ==
    MathRound(length * TARGET_SAMPLE_RATE, sampleRate)

\* nextOffsetBuffer, App.tsx 192: Math.round((offsetResult + 1) * ratio).
NextOffsetBuffer(offsetResult, sampleRate) ==
    MathRound((offsetResult + 1) * sampleRate, TARGET_SAMPLE_RATE)

\* offsetBuffer at the start of iteration offsetResult, App.tsx 190, 200.
OffsetBuffer(offsetResult, sampleRate) ==
    IF offsetResult = 0 THEN 0 ELSE NextOffsetBuffer(offsetResult - 1, sampleRate)

\* The inner loop, App.tsx 193-197: the sum of inputData[from .. to-1].
RECURSIVE Accum(_, _, _)
Accum(inputData, from, to) ==
    IF from >= to THEN 0
    ELSE inputData[from + 1] + Accum(inputData, from + 1, to)

\* The bound of the inner loop: i < nextOffsetBuffer && i < inputData.length.
BucketEnd(offsetResult, f) ==
    Min(NextOffsetBuffer(offsetResult, f.sampleRate), Len(f.samples))

\* count without the bound i < inputData.length of line 194.
BucketCount_Nominal(offsetResult, f) ==
    NextOffsetBuffer(offsetResult, f.sampleRate) - OffsetBuffer(offsetResult, f.sampleRate)

\* count of iteration offsetResult, App.tsx 193-197.
BucketCount(offsetResult, f) ==
    Max(0, BucketEnd(offsetResult, f) - OffsetBuffer(offsetResult, f.sampleRate))

\* downsampled, App.tsx 185-201.
Downsample(f) ==
    [k \in 1..NewLength(Len(f.samples), f.sampleRate) |->
        [accum |-> Accum(f.samples, OffsetBuffer(k - 1, f.sampleRate),
                         BucketEnd(k - 1, f)),
         count |-> BucketCount(k - 1, f)]]

RECURSIVE Gcd(_, _)
Gcd(a, b) == IF b = 0 THEN a ELSE Gcd(b, a % b)

\* The least common denominator of downsampled[1..k].
RECURSIVE CommonCount(_, _)
CommonCount(downsampled, k) ==
    IF k = 0 THEN 1
    ELSE LET c == CommonCount(downsampled, k - 1)
         IN (c * downsampled[k].count) \div Gcd(c, downsampled[k].count)

\* sumSquares, App.tsx 204-207, in units of 1 / (common * Unit)^2.
RECURSIVE SumSquares(_, _, _)
SumSquares(downsampled, k, common) ==
    IF k = 0 THEN 0
    ELSE LET scaled == downsampled[k].accum * (common \div downsampled[k].count)
         IN scaled * scaled + SumSquares(downsampled, k - 1, common)

\* rms > VAD_THRESHOLD, App.tsx 208, 211, as rms^2 > threshold^2.  With no
\* sample, or with a NaN sample, rms is NaN and the comparison is false.
SpeechLikely(downsampled) ==
    IF Len(downsampled) = 0 \/ \E k \in 1..Len(downsampled) : downsampled[k].count = 0
    THEN FALSE
    ELSE LET common == CommonCount(downsampled, Len(downsampled))
         IN SumSquares(downsampled, Len(downsampled), common)
                * VAD_THRESHOLD_DEN * VAD_THRESHOLD_DEN
            > VAD_THRESHOLD_NUM * VAD_THRESHOLD_NUM
                * Len(downsampled) * common * common * Unit * Unit

\* The value stored in pcm16[i], App.tsx 219-220, for the sample a / b
\* (b > 0): clamped to [-1, 1], scaled, and truncated by the store into an
\* Int16Array.
Quantize(a, b) ==
    LET s == Max(-b, Min(b, a))
    IN IF s < 0 THEN -((-s * NEG_SCALE) \div b) ELSE (s * POS_SCALE) \div b

\* The store into an Int16Array: the value modulo 2^16, as a signed number.
ToInt16(v) == ((v + 32768) % 65536) - 32768

\* pcm16, App.tsx 217-221; a NaN sample is stored as 0.
Pcm16(downsampled) ==
    [k \in 1..Len(downsampled) |->
        IF downsampled[k].count = 0 THEN 0
        ELSE ToInt16(Quantize(downsampled[k].accum, downsampled[k].count * Unit))]

\* new Uint8Array(pcm16.buffer), App.tsx 224: two bytes a sample, low first.
Bytes(pcm16) ==
    [i \in 1..2 * Len(pcm16) |->
        LET u == pcm16[(i + 1) \div 2] % 65536
        IN IF i % 2 = 1 THEN u % 256 ELSE u \div 256]

\* window.btoa of the binary string, App.tsx 223-229: four characters (as
\* numbers 0..63) for every three bytes, and the number of '=' at the end.
Btoa(bytes) ==
    LET n == Len(bytes)
        groups == (n + 2) \div 3
        Byte(i) == IF i <= n THEN bytes[i] ELSE 0
        Word(g) == Byte(3 * g - 2) * 65536 + Byte(3 * g - 1) * 256 + Byte(3 * g)
    IN [chars |-> [k \in 1..4 * groups |->
                      (Word((k + 3) \div 4) \div (64 ^ (3 - ((k - 1) % 4)))) % 64],
        pad |-> 3 * groups - n]

\* base64ToArrayBuffer, App.tsx 14-22: window.atob and the copy to bytes.
Base64ToArrayBuffer(base64) ==
    LET groups == Len(base64.chars) \div 4
        Word(g) == base64.chars[4 * g - 3] * 262144 + base64.chars[4 * g - 2] * 4096
                       + base64.chars[4 * g - 1] * 64 + base64.chars[4 * g]
    IN [i \in 1..3 * groups - base64.pad |->
           (Word((i + 2) \div 3) \div (256 ^ (2 - ((i - 1) % 3)))) % 256]

\* new Int16Array(arrayBuffer), App.tsx 145.
Int16Array(bytes) ==
    [k \in 1..Len(bytes) \div 2 |->
        LET u == bytes[2 * k - 1] + 256 * bytes[2 * k]
        IN IF u >= 32768 THEN u - 65536 ELSE u]

\* pcm32, App.tsx 144-149: sample k is num / den.
Decode(base64) ==
    LET pcm16 == Int16Array(Base64ToArrayBuffer(base64))
    IN [k \in 1..Len(pcm16) |-> [num |-> pcm16[k], den |-> DECODE_SCALE]]

\* The argument of sendAudioToGemini, App.tsx 217-229.
Encode(downsampled) == Btoa(Bytes(Pcm16(downsampled)))

\* The frames the capture delivers here: the context's rate, and every
\* short frame, every frame of one value and every frame alternating
\* between full scale and its negative.
SourceRates == {16000, 24000, 44100, 48000}
Samples == -(Unit + 1)..(Unit + 1)
ShortFrames == UNION {[1..n -> Samples] : n \in 0..MaxShortLen}
ConstantFrames == {[k \in 1..n |-> c] : n \in 0..MaxFrameLen, c \in Samples}
AlternatingFrames ==
    {[k \in 1..n |-> IF k % 2 = 1 THEN Unit ELSE -Unit] : n \in 0..MaxFrameLen}
Frames ==
    {[sampleRate |-> r, samples |-> x] :
        r \in SourceRates, x \in ShortFrames \cup ConstantFrames \cup AlternatingFrames}

\* A silent frame and a full-scale frame.
ProbeFrames ==
    {[sampleRate |-> r, samples |-> [k \in 1..MaxFrameLen |-> c]] :
        r \in SourceRates, c \in {0, Unit}}

\* processAudio's signal path on the frame delivered, App.tsx 182-229.
ProcessFrame ==
    /\ packet = NoPacket
    /\ vad' = SpeechLikely(Downsample(frame))
    /\ packet' = Encode(Downsample(frame))
    /\ UNCHANGED << frame, appVars >>

\* The next frame is delivered.
NextFrame ==
    /\ packet # NoPacket
    /\ frame' \in ProbeFrames
    /\ packet' = NoPacket
    /\ UNCHANGED << vad, appVars >>

InitDsp ==
    /\ InitApp
    /\ frame \in Frames  /\ vad = FALSE  /\ packet = NoPacket

NextDsp ==
    \/ ProcessFrame
    \/ NextFrame

SpecDsp == InitDsp /\ [][NextDsp]_vars

\* ------------------------------------------------------------- the claims

\* The sessions that are open or connecting.
OpenOrConnecting == {i \in Conns : conn[i] \in {"connecting", "open"}}

\* C1: in every reachable state at most one remote session is open or
\* connecting.
C1_AtMostOneSession == Cardinality(OpenOrConnecting) <= 1

\* A step in which startGeminiLiveSession is called: a start click whose
\* AudioContext is running, or the continuation of a suspended one.
CallsStartGeminiLiveSession ==
    \/ stateRef = "IDLE" /\ Becomes(Commit(StartConversation(Cur, FALSE)))
    \/ ResumeResolved

\* C2: a call of startGeminiLiveSession made while a session is open or
\* connecting makes no connection attempt and replaces no handle.
C2_SecondStartIsNoOp ==
    [][ (CallsStartGeminiLiveSession /\ OpenOrConnecting # {})
            => (conn' = conn /\ session' = session) ]_vars

\* C3: an audio chunk that arrives while the conversation state is not
\* SPEAKING is neither appended to the playback queue nor started.
C3_ChunkDroppedUnlessSpeaking ==
    [][ (nAudio' = nAudio + 1 /\ assistantState # "SPEAKING")
            => (audioQueue' = audioQueue /\ playLog' = playLog) ]_vars

\* C4: no chunk of an interrupted response that arrives after the interrupt
\* is ever scheduled for playback.
C4_NoStragglerScheduled ==
    \A k \in 1..Len(playLog) : ~playLog[k].late

\* A captured frame whose RMS exceeds VAD_THRESHOLD is processed.
LoudFrame == liveProcs > 0 /\ Becomes(ProcessAudio(Cur, TRUE))

\* C5: a loud frame processed while the conversation state is SPEAKING
\* stops playback and sets the state to LISTENING in the same callback.
C5_LoudFrameInterrupts ==
    [][ (LoudFrame /\ assistantState = "SPEAKING")
            => /\ assistantState' = "LISTENING"
               /\ currentSource' = 0
               /\ audioQueue' = << >>
               /\ isPlaying' = FALSE ]_vars

\* C6: the conversation state is SPEAKING exactly when a chunk was scheduled
\* since the last transition to LISTENING and playback has not drained.
C6_SpeakingIffPlaying ==
    (assistantState = "SPEAKING")
        <=> (scheduled /\ (isPlaying \/ audioQueue # << >>))

\* C9: chunks start playback in the order of their arrival, each at most
\* once.
C9_PlayedInArrivalOrder ==
    /\ \A j, k \in 1..Len(playLog) :
          j < k => playLog[j].chunk < playLog[k].chunk
    /\ \A j, k \in 1..Len(audioQueue) :
          j < k => audioQueue[j].id < audioQueue[k].id
    /\ \A j \in 1..Len(playLog), k \in 1..Len(audioQueue) :
          playLog[j].chunk < audioQueue[k].id

\* Two chunks have been played in turn while a third one, which arrived
\* during their playback, waits in the queue.
C9_Witness == Len(playLog) >= 2 /\ Len(audioQueue) >= 1 /\ isPlaying

\* C10: a chunk that was queued when its predecessor ended starts exactly
\* at the predecessor's start plus the predecessor's duration.
C10_Gapless ==
    [][ (SourceEnded /\ Len(playLog') = Len(playLog) + 1)
            => playLog'[Len(playLog')].start
                   = playLog[currentSource].start + playLog[currentSource].dur ]_vars

\* The batches received and the batches a reply was sent for.
Batches == {received[k].batch : k \in 1..Len(received)}
Replied == {replies[k].batch : k \in 1..Len(replies)}
Suspended == {job.batch : job \in pending}

\* The reply answers the batch: one result per invocation, in the batch's
\* order, with the invocation's id and name, error-shaped where the handler
\* threw or the tool is unknown.
Answers(reply, calls) ==
    /\ Len(reply.responses) = Len(calls)
    /\ \A k \in 1..Len(calls) :
          /\ reply.responses[k].id = calls[k].id
          /\ reply.responses[k].name = calls[k].name
          /\ (calls[k].args = "bad" => reply.responses[k].response = "error_thrown")
          /\ (calls[k].name = "no_such_tool"
                 => reply.responses[k].response = "error_unknown")

\* C7: for a batch received on a session that is still open, handleToolCall,
\* once it has run to its end, has sent exactly one reply, which answers the
\* batch.
C7_OneReplyPerBatch ==
    \A k \in 1..Len(received) :
        LET r == received[k]
            mine == {m \in 1..Len(replies) : replies[m].batch = r.batch}
        IN (conn[r.on] = "open" /\ r.batch \notin Suspended)
              => /\ Cardinality(mine) = 1
                 /\ \A m \in mine : Answers(replies[m], r.calls)

\* C8: no inbound message is dispatched while a batch received earlier has
\* not been replied to.
C8_NoDispatchBeforeReply ==
    [][ (nMsgs' = nMsgs + 1) => (Batches \ Replied = {}) ]_vars

\* The completion callback of a source stopPlayback stopped is detached, and
\* would start no buffer and change no conversation state if it were
\* delivered; no chunk stopPlayback removed from the queue was ever started.
C11_StoppedStaysStopped ==
    /\ stopped \cap attached = {}
    /\ \A source \in stopped :
          /\ OnEnded(Cur, source).playLog = playLog
          /\ OnEnded(Cur, source).assistantState = assistantState
    /\ \A k \in 1..Len(playLog) : playLog[k].chunk \notin flushed

\* C11: a step in which stopPlayback stops a source or removes chunks leaves
\* the queue empty, the playing flag false and no current source; and after
\* every step the callback of a stopped source is detached and harmless and
\* no removed chunk has been started.
C11_InterruptIsFinal ==
    [][ /\ C11_StoppedStaysStopped'
        /\ (stopped' # stopped \/ flushed' # flushed)
              => (audioQueue' = << >> /\ ~isPlaying' /\ currentSource' = 0) ]_vars

\* A source was stopped and a queued chunk removed, and a chunk that arrived
\* later is playing.
C11_Witness == stopped # {} /\ flushed # {} /\ currentSource # 0

\* C12: between an endConversation and the next startConversation (the
\* conversation state is IDLE) no microphone stream and no capture processor
\* is held or live, so no captured frame can be processed.
C12_CaptureReleasedWhenIdle ==
    assistantState = "IDLE"
        => /\ ~streamRef /\ ~processorRef
           /\ liveStreams = 0 /\ liveProcs = 0

\* C13: whenever the conversation state is IDLE, no remote session is open.
C13_NoOpenSessionWhenIdle ==
    assistantState = "IDLE" => \A i \in Conns : conn[i] # "open"

\* One of the three failures is handled: getUserMedia is rejected, the
\* connect is rejected, or onerror is delivered.
FailureHandled ==
    \/ GetUserMediaRejected
    \/ \E i \in Conns : ConnectRejected(i)
    \/ \E i \in Conns : OnError(i)

\* C14: the handling of a failure ends in IDLE with playback stopped, the
\* queue empty, capture released and the session handle cleared.
C14_FailureTearsDown ==
    [][ FailureHandled
            => /\ assistantState' = "IDLE"
               /\ ~isPlaying' /\ currentSource' = 0 /\ attached' = {}
               /\ audioQueue' = << >>
               /\ ~streamRef' /\ ~processorRef'
               /\ liveStreams' = 0 /\ liveProcs' = 0
               /\ session' = 0 ]_vars

\* C15: when the handling of a failure has finished, the error state holds
\* the message of that failure.
C15_FailureSetsMessage ==
    [][ /\ GetUserMediaRejected => error' = MicrophoneError
        /\ (\E i \in Conns : ConnectRejected(i)) => error' = ConnectError
        /\ (\E i \in Conns : OnError(i)) => error' = ConnectionError ]_vars

\* C16: in every state endConversation leaves IDLE, no stream, no processor,
\* no audio context, an empty queue, no playback and no session handle, and
\* a second endConversation right after the first changes nothing.
C16_TeardownIdempotent ==
    LET e == EndConversation(Cur)
    IN /\ EndConversation(e) = e
       /\ e.assistantState = "IDLE"
       /\ ~e.streamRef /\ ~e.processorRef
       /\ ~e.recorderCtx /\ ~e.playerCtx
       /\ e.audioQueue = << >> /\ ~e.isPlaying /\ e.currentSource = 0
       /\ e.session = 0

\* endConversation has run in a conversation that was capturing and playing
\* on an open session.
C16_Witness ==
    /\ assistantState = "IDLE" /\ ~streamRef /\ ~playerCtx /\ session = 0
    /\ nFrames > 0 /\ stopped # {} /\ flushed # {}
    /\ \E i \in Conns : conn[i] = "closing"

\* The sessions that are open.
OpenConns == {i \in Conns : conn[i] = "open"}

\* C17: a frame processed while no session is open is not sent, and
\* sendAudioToGemini changes no state then; the only packet a step sends is
\* the frame processed in that step, so a dropped packet is never sent later.
C17_NoSendWithoutSession ==
    [][ /\ (nFrames' = nFrames + 1 /\ OpenConns = {}) => sent' = sent
        /\ (OpenConns = {} => SendAudioToGemini(Cur) = Cur)'
        /\ sent' # sent
              => /\ nFrames' = nFrames + 1
                 /\ sent' = Append(sent, [frame |-> nFrames', to |-> session]) ]_vars

\* One frame was sent and a later one dropped, no session being open.
C17_Witness ==
    /\ OpenConns = {}
    /\ Len(sent) > 0
    /\ nFrames > sent[Len(sent)].frame

\* closeGeminiLiveSession clears the handle and closes the session it held;
\* a closeGeminiLiveSession or sendAudioToGemini right after it changes
\* nothing.
C18_CloseThenNoOp ==
    LET c == CloseGeminiLiveSession(Cur)
    IN /\ c.session = 0
       /\ session # 0 => c.conn[session] = "closing"
       /\ CloseGeminiLiveSession(c) = c
       /\ SendAudioToGemini(c) = c

\* C18: closeGeminiLiveSession is idempotent and makes the later calls
\* no-ops; no step calls close() on, or sends a packet to, a session that is
\* not open.
C18_CloseIdempotent ==
    [][ /\ C18_CloseThenNoOp'
        /\ sent' # sent => conn[sent'[Len(sent')].to] = "open"
        /\ \A i \in Conns :
              (conn'[i] = "closing" /\ conn[i] # "closing") => conn[i] = "open" ]_vars

\* After closeGeminiLiveSession closed the session, a frame was processed
\* and not sent.
C18_Witness ==
    /\ session = 0
    /\ \E i \in Conns : conn[i] = "closing"
    /\ nFrames > Len(sent)

\* C19: the conversation state is LISTENING only when microphone capture has
\* started: no getUserMedia is pending and the stream and processor exist.
C19_ListeningOnlyWhenCapturing ==
    assistantState = "LISTENING"
        => (gumPending = 0 /\ streamRef /\ processorRef)

\* C20: whenever the conversation state is SPEAKING it eventually is not:
\* it becomes LISTENING by an interrupt or by the drain of playback, or IDLE
\* by a teardown (the chunks and frames of a behaviour are finitely many).
C20_SpeakingEnds ==
    (assistantState = "SPEAKING") ~> (assistantState # "SPEAKING")

\* The batch a reply was sent for.
BatchOf(reply) ==
    CHOOSE r \in {received[k] : k \in 1..Len(received)} : r.batch = reply.batch

\* C21: every reply has one result per invocation of its batch, in order and
\* with the invocation's id and name: "error_unknown" for a name that is not
\* in the handler table, the handler's result for every other invocation; a
\* batch gets one reply at most, and exactly one when handleToolCall has run
\* to its end and the handle still is the batch's session.
C21_UnknownToolContained ==
    /\ \A m \in 1..Len(replies) :
          LET calls == BatchOf(replies[m]).calls
              resp == replies[m].responses
          IN /\ Len(resp) = Len(calls)
             /\ \A k \in 1..Len(calls) :
                   /\ resp[k].id = calls[k].id
                   /\ resp[k].name = calls[k].name
                   /\ calls[k].name \notin SyncTools \cup AsyncTools
                         <=> resp[k].response = "error_unknown"
                   /\ (calls[k].name \in SyncTools /\ calls[k].args = "good")
                         => resp[k].response = "ok"
    /\ \A m, n \in 1..Len(replies) :
          replies[m].batch = replies[n].batch => m = n
    /\ \A k \in 1..Len(received) :
          (session = received[k].on /\ received[k].batch \notin Suspended)
              => received[k].batch \in Replied

\* A reply answers an unknown tool with an error and another invocation of
\* the same batch with its result.
C21_Witness ==
    \E m \in 1..Len(replies) :
        \E j, k \in 1..Len(replies[m].responses) :
            /\ replies[m].responses[j].response = "error_unknown"
            /\ replies[m].responses[k].response = "ok"

\* A step in which handleToolCall runs: from its call in onmessage, or
\* resumed after the awaited fetch.
HandlesToolCall == nBatches' # nBatches \/ pending' # pending

\* C22: a step in which handleToolCall runs closes no session, leaves the
\* handle, the conversation state and the error state as they are and tears
\* nothing down, whatever the handlers of the batch throw.
C22_ToolFailureContained ==
    [][ HandlesToolCall
            => /\ conn' = conn /\ session' = session
               /\ assistantState' = assistantState /\ stateRef' = stateRef
               /\ error' = error
               /\ playerCtx' = playerCtx /\ streamRef' = streamRef ]_vars

\* A handler threw, its batch was answered, and the session is still open
\* and held.
C22_Witness ==
    \E m \in 1..Len(replies) :
        /\ \E k \in 1..Len(replies[m].responses) :
              replies[m].responses[k].response = "error_thrown"
        /\ conn[replies[m].to] = "open"
        /\ session = replies[m].to

\* C23: a step in which the decoding of an admitted chunk fails changes
\* nothing of the scheduler; and every chunk that decodes and arrives while
\* addAudioChunkToQueue admits chunks is queued or started, whatever failed
\* to decode before.
C23_MalformedChunkDropped ==
    [][ /\ malformed' # malformed
              => /\ audioQueue' = audioQueue /\ isPlaying' = isPlaying
                 /\ currentSource' = currentSource /\ attached' = attached
                 /\ nextPlayTime' = nextPlayTime /\ playLog' = playLog
        /\ (nAudio' = nAudio + 1 /\ Admits(Cur) /\ malformed' = malformed)
              => \/ \E k \in 1..Len(audioQueue') : audioQueue'[k].id = nAudio'
                 \/ /\ Len(playLog') = Len(playLog) + 1
                    /\ playLog'[Len(playLog')].chunk = nAudio' ]_vars

\* A chunk failed to decode during playback and a chunk that arrived after
\* it has been started.
C23_Witness ==
    \E c \in malformed :
        /\ \E k \in 1..Len(playLog) : playLog[k].chunk < c
        /\ \E k \in 1..Len(playLog) : playLog[k].chunk > c

\* C24: the step that processes a frame hands exactly that frame to the
\* session the handle holds, after the VAD decision and whether or not it
\* interrupted, and sends nothing when there is no handle; the packets sent
\* are in capture order.
C24_OneSendPerFrame ==
    [][ /\ nFrames' = nFrames + 1
              => sent' = IF session # 0
                         THEN Append(sent, [frame |-> nFrames', to |-> session])
                         ELSE sent
        /\ \A j, k \in 1..Len(sent') : j < k => sent'[j].frame < sent'[k].frame ]_vars

\* Two frames were captured and sent, one of which interrupted playback.
C24_Witness ==
    /\ interrupted # {}
    /\ Len(sent) >= 2
    /\ Len(sent) = nFrames

\* The samples the packet holds, as the playback decoder reads them.
Sent16 == Int16Array(Base64ToArrayBuffer(packet))

\* C25: the downsampled frame has round(length / (sampleRate / 16000))
\* samples (the integer nearest to the quotient, a half going up), and each of
\* them is the sum of count >= 1 consecutive samples of the frame, divided by
\* count; the packet sent holds as many samples.
C25_ResamplerShape ==
    LET length == Len(frame.samples)
        rate == frame.sampleRate
        d == Downsample(frame)
        n == Len(d)
    IN /\ -rate < 2 * (n * rate - length * TARGET_SAMPLE_RATE)
       /\ 2 * (n * rate - length * TARGET_SAMPLE_RATE) <= rate
       /\ \A k \in 1..n :
             /\ d[k].count >= 1
             /\ \E from \in 0..length - 1 :
                   /\ from + d[k].count <= length
                   /\ d[k].accum = Accum(frame.samples, from, from + d[k].count)
       /\ packet # NoPacket => Len(Sent16) = n

\* A frame of five samples at 48 kHz, a length the ratio 3 does not divide,
\* has been processed.
C25_Witness ==
    /\ packet # NoPacket
    /\ frame.sampleRate = 48000
    /\ Len(frame.samples) = 5
    /\ Len(Sent16) = 2

\* C26: when every sample of the frame has the value c, every downsampled
\* sample is c, and the packet holds the quantized c in every sample.
C26_ConstantPreserved ==
    \A c \in Samples :
        (\A i \in 1..Len(frame.samples) : frame.samples[i] = c)
            => LET d == Downsample(frame)
               IN /\ \A k \in 1..Len(d) :
                        d[k].count > 0 /\ d[k].accum = c * d[k].count
                  /\ packet # NoPacket
                        => \A k \in 1..Len(Sent16) :
                              Sent16[k] = ToInt16(Quantize(c, Unit))

\* A frame of five samples of value 1/Unit at 44.1 kHz has been processed.
C26_Witness ==
    /\ packet # NoPacket
    /\ frame.sampleRate = 44100
    /\ frame.samples = [k \in 1..5 |-> 1]
    /\ Len(Sent16) > 0

\* C27: every downsampled sample in [-1, 1], encoded and decoded again,
\* differs from the decoded value by 1/32768 at most.
C27_RoundTrip ==
    packet # NoPacket
        => LET d == Downsample(frame)
               pcm32 == Decode(packet)
           IN \A k \in 1..Len(d) :
                 LET a == d[k].accum
                     b == d[k].count * Unit
                     diff == a * pcm32[k].den - pcm32[k].num * b
                 IN (-b <= a /\ a <= b)
                       => /\ diff * NEG_SCALE <= b * pcm32[k].den
                          /\ -diff * NEG_SCALE <= b * pcm32[k].den

\* The same for the samples 0.5, -0.5 and 0.0, unresampled.
RoundTripOfKnownSamples ==
    (packet # NoPacket /\ frame.sampleRate = TARGET_SAMPLE_RATE)
        => LET pcm32 == Decode(packet)
           IN \A k \in 1..Len(frame.samples) :
                 LET diff == frame.samples[k] * pcm32[k].den - pcm32[k].num * Unit
                 IN 2 * frame.samples[k] \in {Unit, -Unit, 0}
                       => /\ diff * NEG_SCALE <= Unit * pcm32[k].den
                          /\ -diff * NEG_SCALE <= Unit * pcm32[k].den

\* A silent frame and a frame at full scale, as the capture delivers them.
SilentFrame == [sampleRate |-> 48000, samples |-> [k \in 1..MaxFrameLen |-> 0]]
FullScaleFrame == [sampleRate |-> 48000, samples |-> [k \in 1..MaxFrameLen |-> Unit]]

\* processAudio runs on frame f.
FrameProcessed(f) ==
    /\ liveProcs > 0
    /\ Becomes(ProcessAudio(Cur, SpeechLikely(Downsample(f))))

\* The decision taken for a frame is that of its own samples, whatever was
\* decided before: none for silence, speech for full scale.
VadDecidesPerFrame ==
    packet # NoPacket
        => /\ vad = SpeechLikely(Downsample(frame))
           /\ (\A i \in 1..Len(frame.samples) : frame.samples[i] = 0) => ~vad
           /\ (frame \in ProbeFrames /\ frame.samples[1] = Unit) => vad

\* C28: a silent frame never interrupts, and a single frame at full scale
\* processed while the conversation state is SPEAKING does, whatever frames
\* came before.
C28_VadPerFrame ==
    [][ /\ FrameProcessed(SilentFrame)
              => /\ assistantState' = assistantState /\ stopped' = stopped
                 /\ audioQueue' = audioQueue /\ currentSource' = currentSource
        /\ (FrameProcessed(FullScaleFrame) /\ assistantState = "SPEAKING")
              => /\ assistantState' = "LISTENING"
                 /\ audioQueue' = << >> /\ currentSource' = 0 /\ ~isPlaying' ]_vars

\* The changes of the conversation state the state machine lists.
ListedTransitions ==
    { <<"IDLE", "PROCESSING">>, <<"PROCESSING", "LISTENING">>,
      <<"LISTENING", "SPEAKING">>, <<"SPEAKING", "LISTENING">> }
        \cup {<<from, "IDLE">> : from \in AssistantState}

\* C29: every change of the conversation state is one of the listed
\* transitions.
C29_OnlyListedTransitions ==
    [][ assistantState' # assistantState
            => <<assistantState, assistantState'>> \in ListedTransitions ]_vars

\* C30: a loud frame processed while the conversation state is not SPEAKING
\* changes neither the conversation state nor the queue, the playing flag or
\* the current source.
C30_LoudFrameOutsideSpeaking ==
    [][ (LoudFrame /\ assistantState # "SPEAKING")
            => /\ assistantState' = assistantState
               /\ audioQueue' = audioQueue /\ isPlaying' = isPlaying
               /\ currentSource' = currentSource /\ attached' = attached ]_vars


\* onmessage delivers a well-formed audio chunk.
WellFormedChunkArrives ==
    \E d \in Durations :
        LET chunk == [id |-> nAudio + 1, dur |-> d, resp |-> curResp,
                      late |-> curResp \in interrupted]
        IN Becomes(OnAudio([Dispatched(Cur) EXCEPT !.nAudio = @ + 1], chunk, TRUE))

\* The chunks that are queued, and those that were started.
Queued == {audioQueue[k].id : k \in 1..Len(audioQueue)}
Started == {playLog[k].chunk : k \in 1..Len(playLog)}

\* C31: a well-formed chunk received while the conversation state is
\* LISTENING or SPEAKING (and React has committed it) and no interrupt has
\* occurred is enqueued or started at once, the chunk that takes the state
\* from LISTENING to SPEAKING included.
C31_NoChunkLost ==
    [][ ( /\ WellFormedChunkArrives
          /\ stateRef = assistantState
          /\ assistantState \in {"LISTENING", "SPEAKING"}
          /\ interrupted = {} /\ stopped = {} )
            => (nAudio + 1) \in Queued' \cup Started' ]_vars


\* C32: the onclose of a session that closeGeminiLiveSession closed, delivered
\* while the module holds the handle of another, open session, leaves that
\* handle in place.
C32_StaleCloseKeepsHandle ==
    [][ \A i \in Conns :
          ( /\ conn[i] = "closing" /\ conn'[i] = "closed"
            /\ session # 0 /\ session # i /\ conn[session] = "open" )
              => /\ session' = session
                 /\ conn'[session] = "open" ]_vars


\* Every session of the run has closed.
SessionsClosed ==
    /\ \E i \in Conns : conn[i] = "closed"
    /\ \A i \in Conns : conn[i] \in {"none", "closed"}

\* C33: when the session has closed (onclose was delivered) and the
\* conversation state is LISTENING or SPEAKING, the state eventually becomes
\* IDLE with capture released.
C33_RemoteCloseEndsConversation ==
    (SessionsClosed /\ assistantState \in {"LISTENING", "SPEAKING"})
        ~> (assistantState = "IDLE" /\ liveStreams = 0 /\ liveProcs = 0)


\* C34: from IDLE the conversation state changes only to PROCESSING, by a
\* click on the button that starts a conversation.
C34_IdleUntilStart ==
    [][ (assistantState = "IDLE" /\ assistantState' # "IDLE")
            => (stateRef = "IDLE" /\ assistantState' = "PROCESSING") ]_vars


\* C36: the source started next after a source that an interrupt stopped
\* starts at the current time of the output clock.
C36_StartsAtClockAfterInterrupt ==
    [][ ( /\ Len(playLog') = Len(playLog) + 1
          /\ Len(playLog) > 0 /\ Len(playLog) \in stopped
          /\ interrupted # {} )
            => playLog'[Len(playLog')].start = clock ]_vars


\* C37: the replies are sent in the order in which their batches were
\* received.
C37_RepliesInBatchOrder ==
    \A j, k \in 1..Len(replies) : j < k => replies[j].batch < replies[k].batch


\* C39: between handlers, a non-empty queue implies the playing flag, and
\* the playing flag is set exactly when a current source is.
C39_QueueFlagSource ==
    /\ Len(audioQueue) > 0 => isPlaying
    /\ isPlaying <=> currentSource # 0

\* After an interrupt, a buffer plays and another waits in the queue.
C39_Witness ==
    /\ Len(audioQueue) > 0 /\ isPlaying /\ currentSource > 1
    /\ stopped # {}


\* A pending connect attempt opens or fails.
ConnectSettles == \E i \in Conns : ConnectResolved(i) \/ ConnectRejected(i)

\* The life cycle in which every connect attempt and every pAC.resume()
\* settles and React commits every pending update.
SpecConnect ==
    /\ Init /\ [][Next]_vars
    /\ WF_vars(ConnectSettles) /\ WF_vars(ResumeResolved) /\ WF_vars(Render)

\* C35: the conversation state does not stay PROCESSING.
C35_ProcessingEnds ==
    (assistantState = "PROCESSING") ~> (assistantState # "PROCESSING")


\* The invocations reported to onToolResponse in a step.
NewToolResponses ==
    SubSeq(toolResponses', Len(toolResponses) + 1, Len(toolResponses'))

\* C38: a batch answered in the task that received it has reported each of
\* its invocations to onToolResponse once, in order, and once no batch is
\* being handled the tools-in-use indicator set by onToolCall is cleared.
C38_ToolCallbacksPaired ==
    [][ /\ (nBatches' # nBatches /\ Len(replies') > Len(replies))
              => LET reply == replies'[Len(replies')]
                 IN NewToolResponses =
                        [k \in 1..Len(reply.responses) |-> reply.responses[k].id]
        /\ (HandlesToolCall /\ pending' = {}) => ~isUsingTools' ]_vars

====
